---- MODULE Spec2Model ----
(***************************************************************************)
(* Model of qa/tasks/ceph2.py: the ceph-daemon cluster task.               *)
(*                                                                         *)
(* task() runs nine context managers through contextutil.nested.  Each     *)
(* manager is a generator: the code before its yield is the phase's entry  *)
(* action, the finally block is its teardown action.  Every remote command *)
(* (remote.run, ctx.cluster.run, shell, write_file, get_file,              *)
(* pull_directory) either succeeds or raises.                              *)
(*                                                                         *)
(* Role names are Python strings; they are modelled as sequences of        *)
(* character codes so that startswith() and sorted() are computed.         *)
(***************************************************************************)
EXTENDS Integers, Sequences, FiniteSets, TLC

----------------------------------------------------------------------------
(* Bounds of the model *)

\* at most this many 'mon dump' queries are followed inside one poll
MaxPolls == 3
\* at most this many scratch devices per host
MaxDevs == 2
\* at most this many remote operations fail in one run
MaxFaults == 2
\* at most this many names in the list stop() is given
MaxStopLen == 2

----------------------------------------------------------------------------
(* Strings *)

MonPrefix == <<109, 111, 110, 46>>
MgrPrefix == <<109, 103, 114, 46>>
OsdPrefix == <<111, 115, 100, 46>>

\* str.startswith
StartsWith(s, p) == Len(s) >= Len(p) /\ SubSeq(s, 1, Len(p)) = p

\* Python's < on str: the first differing character decides, a proper prefix
\* is smaller
StrLess(a, b) ==
    \/ \E i \in 1..Len(a) :
          /\ i <= Len(b)
          /\ a[i] < b[i]
          /\ \A j \in 1..(i - 1) : a[j] = b[j]
    \/ /\ Len(a) < Len(b)
       /\ \A j \in 1..Len(a) : a[j] = b[j]

\* sorted(names)[0]
SortedFirst(names) == CHOOSE x \in names : \A y \in names : y = x \/ StrLess(x, y)

\* set of the elements of a list
Range(s) == {s[i] : i \in 1..Len(s)}

\* [r for r in roles if r.startswith(prefix)]
Filter(roles, prefix) == SelectSeq(roles, LAMBDA r : StartsWith(r, prefix))

RECURSIVE Concat(_)
Concat(ss) == IF ss = <<>> THEN <<>> ELSE Head(ss) \o Concat(Tail(ss))

----------------------------------------------------------------------------
(* The test cluster: hosts, their role lists, their scratch devices *)

Hosts == {"H1", "H2"}
NoHost == "none"

MonA == MonPrefix \o <<97>>
MonB == MonPrefix \o <<98>>
MgrA == MgrPrefix \o <<97>>
MgrC == MgrPrefix \o <<99>>
Osd0 == OsdPrefix \o <<48>>
Osd1 == OsdPrefix \o <<49>>
MonC == MonPrefix \o <<99>>

\* the roles in the order the job's yaml lists them (not sorted)
RoleOrder == <<MonB, MgrC, Osd1, MonA, MgrA, Osd0>>

Placements == [Range(RoleOrder) -> Hosts \cup {NoHost}]

\* the same with a third monitor, for the clusters that have one
RoleOrder3 == <<MonB, MgrC, Osd1, MonC, MonA, MgrA, Osd0>>

RolesOf(place, h) ==
    SelectSeq(RoleOrder3, LAMBDA r : r \in DOMAIN place /\ place[r] = h)

\* get_scratch_devices(remote): d devices, numbered
ScratchList(d) == [i \in 1..d |-> i]


\* one cluster: which host has which role (place) and how many scratch devices
Clusters == [place : Placements, ndevs : [Hosts -> 0..MaxDevs]]

\* H1: mon.b mgr.c osd.1 mon.a, H2: mgr.a osd.0, a device for every osd
ClusterA ==
    [place |-> [r \in Range(RoleOrder) |->
                   IF r \in {MonB, MgrC, Osd1, MonA} THEN "H1" ELSE "H2"],
     ndevs |-> [h \in Hosts |-> 1]]

\* H1: osd.1 mon.a osd.0, H2: mon.b mgr.c mgr.a: no mgr beside the first mon
ClusterB ==
    [place |-> [r \in Range(RoleOrder) |->
                   IF r \in {MonA, Osd0, Osd1} THEN "H1" ELSE "H2"],
     ndevs |-> [h \in Hosts |-> IF h = "H1" THEN MaxDevs ELSE 0]]

\* H1: mgr.c osd.1 mon.a osd.0, H2: mon.b mgr.a: two osds on one device
ClusterC ==
    [place |-> [r \in Range(RoleOrder) |->
                   IF r \in {MonB, MgrA} THEN "H2" ELSE "H1"],
     ndevs |-> [h \in Hosts |-> IF h = "H1" THEN 1 ELSE 0]]

\* the clusters the whole task is run on
TaskClusters == {ClusterA, ClusterB, ClusterC}

\* the clusters ceph_osds is run on: every placement of the osd.* roles,
\* every number of devices
OsdClusters ==
    {c \in Clusters : \A r \in Range(RoleOrder) :
        ~StartsWith(r, OsdPrefix) => c.place[r] = ClusterA.place[r]}

\* the clusters the first mon and mgr are chosen on: every placement with a mon
SelectClusters ==
    {c \in Clusters : /\ \A h \in Hosts : c.ndevs[h] = 0
                      /\ \E r \in Range(RoleOrder) :
                            StartsWith(r, MonPrefix) /\ c.place[r] # NoHost}

\* the clusters ceph_mons is run on: one to three monitors placed anywhere,
\* a mgr on each host
MonClusters ==
    {c \in [place : [Range(RoleOrder3) -> Hosts \cup {NoHost}],
            ndevs : [Hosts -> {0}]] :
        /\ \A r \in Range(RoleOrder) :
              ~StartsWith(r, MonPrefix) => c.place[r] = ClusterA.place[r]
        /\ \E r \in Range(RoleOrder3) :
              StartsWith(r, MonPrefix) /\ c.place[r] # NoHost}

\* the clusters ceph_mgrs is run on: the monitors and the managers placed
\* anywhere, with a mgr beside the first monitor (or ceph_bootstrap had raised)
MgrClusters ==
    {c \in Clusters :
        /\ \A h \in Hosts : c.ndevs[h] = 0
        /\ \A r \in Range(RoleOrder) :
              StartsWith(r, OsdPrefix) => c.place[r] = ClusterA.place[r]
        /\ \E r \in Range(RoleOrder) :
              /\ StartsWith(r, MonPrefix)
              /\ c.place[r] # NoHost
              /\ \A q \in Range(RoleOrder) :
                    StartsWith(q, MonPrefix) /\ c.place[q] # NoHost =>
                       q = r \/ StrLess(r, q)
              /\ \E g \in Range(RoleOrder) :
                    StartsWith(g, MgrPrefix) /\ c.place[g] = c.place[r]}

AllRoles(rem) == UNION {Range(rem[h]) : h \in Hosts}

\* the remote a role lives on: ctx.cluster.only(role).remotes.keys()
RemoteOf(rem, role) == CHOOSE h \in Hosts : role \in Range(rem[h])

\* ctx.mons = get_mons(roles, ips, ...): maps every mon.* role to its address
Mons(rem) == {r \in AllRoles(rem) : StartsWith(r, MonPrefix)}

\* the orders in which a dict of the hosts may be iterated
HostOrders == {o \in [1..Cardinality(Hosts) -> Hosts] : Range(o) = Hosts}

----------------------------------------------------------------------------
(* The task configuration and build_initial_config *)

ConfSections == {"global", "mon"}
ConfKeys == {"fsid", "debug"}
ConfValues == {"fsid-2", "20"}

EmptyMap == [k \in {} |-> ""]

\* the mappings key -> value and section -> key -> value of config['conf']
KeyMaps == UNION {[K -> ConfValues] : K \in SUBSET ConfKeys}

Overrides == UNION {[S -> KeyMaps] : S \in SUBSET ConfSections}

\* a task configuration with this 'conf', and one without a 'conf' key
WithConf(ov) == [k \in {"conf"} |-> ov]

NoConf == [k \in {} |-> EmptyMap]

\* the sections of the result: 'global' (conf.setdefault('global', {})) and
\* every section of the overrides the inner loop runs for at least once
\* (if section not in conf: conf[section] = {})
ResultSections(ov) == {"global"} \cup {sec \in DOMAIN ov : DOMAIN ov[sec] # {}}

\* build_initial_config with conf[section][key] = value kept from overwriting
build_initial_config_keep(X, ov) ==
    [sec \in ResultSections(ov) |->
        LET base == IF sec = "global" THEN [k \in {"fsid"} |-> X] ELSE EmptyMap
            over == IF sec \in DOMAIN ov THEN ov[sec] ELSE EmptyMap
        IN  base @@ over]

\* conf['global']['fsid'] = ctx.fsid, then conf[section][key] = value for
\* every section, key, value of config['conf']
build_initial_config(X, ov) ==
    [sec \in ResultSections(ov) |->
        LET base == IF sec = "global" THEN [k \in {"fsid"} |-> X] ELSE EmptyMap
            over == IF sec \in DOMAIN ov THEN ov[sec] ELSE EmptyMap
        IN  over @@ base]

----------------------------------------------------------------------------
(* State *)

VARIABLES
    remotes,          \* ctx.cluster.remotes: host -> list of roles
    order,            \* iteration order of ctx.cluster.remotes
    scratch,          \* host -> what get_scratch_devices returns
    archive,          \* ctx.archive is not None
    archive_on_error, \* ctx.config.get('archive-on-error')
    fsid,             \* task(): fsid, handed to the managers
    ctx_fsid,         \* ctx.fsid
    config,           \* the task's config: 'conf' -> overrides, or no 'conf'
    stop_config,      \* stop(): the config it is called with
    running,          \* the daemons of ctx.daemons that run
    first_mon,        \* ctx.first_mon
    first_mgr,        \* ctx.first_mgr
    idx,              \* nested: index of the manager being entered
    exits,            \* nested: stack of the entered managers
    exc,              \* the exception in flight / nested's exc
    cur,              \* the manager whose code is running
    pc,               \* the statement control is at
    hi,               \* position in a loop over the hosts
    wi,               \* position in a loop over work items (mons, devices, osds)
    num_mons,         \* ceph_mons: num_mons
    report,           \* ceph_mons: len(j['mons']) of the last mon dump
    devs_by_remote,   \* ceph_osds: devs_by_remote
    log,              \* everything done so far, in order
    faults,           \* number of remote operations that failed
    raised            \* what task() raised to its caller

\* what the job hands to task(), and what only stop() touches
job == <<remotes, order, scratch, archive, archive_on_error, fsid, ctx_fsid,
         config>>
cluster == <<job, stop_config, running>>
ctxvars == <<first_mon, first_mgr>>
loopvars == <<hi, wi, num_mons, report, devs_by_remote>>
vars == <<cluster, ctxvars, idx, exits, exc, cur, pc, loopvars, log,
          faults, raised>>

\* the managers handed to contextutil.nested, in order
Managers == <<"ceph_initial", "normalize_hostnames", "download_ceph_daemon",
              "ceph_log", "ceph_crash", "ceph_bootstrap", "ceph_mons",
              "ceph_mgrs", "ceph_osds">>

NoExc == [kind |-> "none"]
NoRole == <<>>
Fsids == {"fsid-1", "fsid-2"}

\* events of the log
Enter(ph) == [op |-> "enter", ph |-> ph]
Entered(ph) == [op |-> "entered", ph |-> ph]
Finally(ph) == [op |-> "finally", ph |-> ph]
Finished(ph) == [op |-> "finished", ph |-> ph]
\* exception e leaves the code of manager ph: "entry" (before its try), "try"
\* or "finally"
Raise(ph, where, e) == [op |-> "raise", ph |-> ph, where |-> where, e |-> e]
\* a remote operation of phase ph on host h ("all": ctx.cluster.run), with the
\* arguments that vary and the fsid it names ("": none)
Cmd(ph, h, what, arg, f, ok) ==
    [op |-> "cmd", ph |-> ph, host |-> h, cmd |-> what, arg |-> arg,
     fsid |-> f, ok |-> ok]

\* the exception a failed remote operation raises
CommandFailed(ph, what) == [kind |-> "CommandFailedError", ph |-> ph, cmd |-> what]

\* first statement of each manager's entry code
EntryPc(ph) ==
    CASE ph = "ceph_initial" -> "yield"
      [] ph = "normalize_hostnames" -> "norm_hostname"
      [] ph = "download_ceph_daemon" -> "dl_curl"
      [] ph = "ceph_log" -> "yield"
      [] ph = "ceph_crash" -> "yield"
      [] ph = "ceph_bootstrap" -> "boot_select"
      [] ph = "ceph_mons" -> "mons_next"
      [] ph = "ceph_mgrs" -> "mgrs_update"
      [] ph = "ceph_osds" -> "osds_zap"

\* first statement of each manager's finally block
FinallyPc(ph) ==
    CASE ph = "ceph_initial" -> "fin_initial"
      [] ph = "normalize_hostnames" -> "fin_pass"
      [] ph = "download_ceph_daemon" -> "fin_dl_rm_cluster"
      [] ph = "ceph_log" -> "fin_log"
      [] ph = "ceph_crash" -> "fin_crash"
      [] ph = "ceph_bootstrap" -> "fin_boot_rm"
      [] ph = "ceph_mons" -> "fin_pass"
      [] ph = "ceph_mgrs" -> "fin_pass"
      [] ph = "ceph_osds" -> "fin_pass"



----------------------------------------------------------------------------
(* task(): lines 483-541 have run *)

\* the state in which manager number i of nested is called on cluster c, the
\* managers before it entered and fsid f generated; the log starts here
Called(c, i, f) ==
    /\ remotes = [h \in Hosts |-> RolesOf(c.place, h)]
    /\ scratch = [h \in Hosts |-> ScratchList(c.ndevs[h])]
    /\ order \in HostOrders
    /\ fsid = f
    /\ ctx_fsid = f
    /\ idx = i
    /\ exits = SubSeq(Managers, 1, i - 1)
    /\ exc = NoExc
    /\ cur = "task"
    /\ pc = "enter"
    /\ hi = 1
    /\ wi = 1
    /\ num_mons = 1
    /\ report = -1
    /\ devs_by_remote = <<>>
    /\ log = <<>>
    /\ faults = 0
    /\ raised = NoExc
    /\ stop_config = [form |-> "none"]
    /\ running = {}

Init ==
    /\ \E c \in TaskClusters, f \in Fsids : Called(c, 1, f)
    /\ config = WithConf(EmptyMap)
    /\ archive \in BOOLEAN
    /\ archive_on_error \in BOOLEAN
    /\ first_mon = NoRole
    /\ first_mgr = NoRole

----------------------------------------------------------------------------
(* contextutil.nested and the body of task() *)

\* for mgr_fn in managers: mgr = mgr_fn(); enter = mgr.__enter__; enter()
nested_enter ==
    /\ pc = "enter"
    /\ cur' = Managers[idx]
    /\ pc' = EntryPc(Managers[idx])
    /\ log' = Append(log, Enter(Managers[idx]))
    /\ hi' = 1
    /\ wi' = 1
    /\ num_mons' = 1
    /\ report' = -1
    /\ devs_by_remote' = <<>>
    /\ UNCHANGED <<cluster, ctxvars, idx, exits, exc, faults, raised>>

\* the manager reached its yield: exits.append(exit), next manager or yield vars
nested_entered ==
    /\ pc = "yield"
    /\ exits' = Append(exits, cur)
    /\ log' = Append(log, Entered(cur))
    /\ IF idx < Len(Managers)
          THEN idx' = idx + 1 /\ pc' = "enter"
          ELSE idx' = idx /\ pc' = "body"
    /\ cur' = "task"
    /\ UNCHANGED <<cluster, ctxvars, exc, loopvars, faults, raised>>

\* the caller's body ends normally; task's finally logs 'Teardown begin'
task_body_return ==
    /\ pc = "body"
    /\ pc' = "unwind"
    /\ log' = log \o <<[op |-> "body", ok |-> TRUE], [op |-> "teardown_begin"]>>
    /\ UNCHANGED <<cluster, ctxvars, idx, exits, exc, cur, loopvars,
                   faults, raised>>

\* the caller's body raises: thrown into task at its yield, then into nested
task_body_raise ==
    /\ pc = "body"
    /\ faults < MaxFaults
    /\ faults' = faults + 1
    /\ exc' = [kind |-> "BodyError"]
    /\ pc' = "unwind"
    /\ log' = log \o <<[op |-> "body", ok |-> FALSE], [op |-> "teardown_begin"]>>
    /\ UNCHANGED <<cluster, ctxvars, idx, exits, cur, loopvars, raised>>

\* nested_exit with the managers left in the order they were entered
nested_exit_fifo ==
    /\ pc = "unwind"
    /\ exits # <<>>
    /\ cur' = Head(exits)
    /\ exits' = Tail(exits)
    /\ pc' = FinallyPc(Head(exits))
    /\ log' = Append(log, Finally(Head(exits)))
    /\ hi' = 1
    /\ UNCHANGED <<cluster, ctxvars, idx, exc, wi, num_mons, report,
                   devs_by_remote, faults, raised>>

\* nested_exit where an exception of an exit ends the loop over exits
nested_exit_stop ==
    /\ pc = "unwind"
    /\ exits # <<>>
    /\ IF log # <<>> /\ log[Len(log)].op = "raise" /\ log[Len(log)].where = "finally"
          THEN /\ pc' = "done"
               /\ raised' = exc
               /\ UNCHANGED <<cur, exits, log, hi>>
          ELSE /\ cur' = exits[Len(exits)]
               /\ exits' = SubSeq(exits, 1, Len(exits) - 1)
               /\ pc' = FinallyPc(exits[Len(exits)])
               /\ log' = Append(log, Finally(exits[Len(exits)]))
               /\ hi' = 1
               /\ UNCHANGED raised
    /\ UNCHANGED <<cluster, ctxvars, idx, exc, wi, num_mons, report,
                   devs_by_remote, faults>>

\* finally: while exits: exit = exits.pop(); exit(*exc)
nested_exit ==
    /\ pc = "unwind"
    /\ exits # <<>>
    /\ cur' = exits[Len(exits)]
    /\ exits' = SubSeq(exits, 1, Len(exits) - 1)
    /\ pc' = FinallyPc(exits[Len(exits)])
    /\ log' = Append(log, Finally(exits[Len(exits)]))
    /\ hi' = 1
    /\ UNCHANGED <<cluster, ctxvars, idx, exc, wi, num_mons, report,
                   devs_by_remote, faults, raised>>

\* if exc != (None, None, None): raise
nested_finish ==
    /\ pc = "unwind"
    /\ exits = <<>>
    /\ raised' = exc
    /\ pc' = "done"
    /\ cur' = "task"
    /\ UNCHANGED <<cluster, ctxvars, idx, exits, exc, loopvars, log,
                   faults>>

(* How a manager's code ends *)

\* RaiseOutsideTry with the statement that raised placed inside the try
RaiseOutsideTry_in_try(events, e) ==
    /\ exc' = e
    /\ pc' = FinallyPc(cur)
    /\ log' = log \o events \o <<Raise(cur, "entry", e), Finally(cur)>>

\* an exception raised before the manager's try statement: straight to nested
RaiseOutsideTry(events, e) ==
    /\ exc' = e
    /\ pc' = "unwind"
    /\ log' = log \o events \o <<Raise(cur, "entry", e)>>

\* RaiseInTry with the statement that raised placed before the try
RaiseInTry_before_try(events, e) == RaiseOutsideTry(events, e)

\* an exception raised inside the manager's try: its finally block runs first
RaiseInTry(events, e) ==
    /\ exc' = e
    /\ pc' = FinallyPc(cur)
    /\ log' = log \o events \o <<Raise(cur, "try", e), Finally(cur)>>

\* a finally block ran to its end: back to nested with the exception unchanged
FinallyEnd(events) ==
    /\ pc' = "unwind"
    /\ log' = log \o events \o <<Finished(cur)>>
    /\ UNCHANGED exc

\* an exception raised inside a finally block replaces the one in flight
FinallyRaise(events, e) ==
    /\ exc' = e
    /\ pc' = "unwind"
    /\ log' = log \o events \o <<Raise(cur, "finally", e)>>

\* a remote operation at p inside the try of the running manager: on success
\* control is at q, on failure the exception takes the finally block
InTry(p, h, what, arg, f, q) ==
    /\ pc = p
    /\ \/ /\ pc' = q
          /\ log' = Append(log, Cmd(cur, h, what, arg, f, TRUE))
          /\ UNCHANGED <<exc, faults>>
       \/ /\ faults < MaxFaults
          /\ faults' = faults + 1
          /\ RaiseInTry(<<Cmd(cur, h, what, arg, f, FALSE)>>, CommandFailed(cur, what))

\* a remote operation at p before the try of the running manager
OutsideTry(p, h, what, arg, f, q) ==
    /\ pc = p
    /\ \/ /\ pc' = q
          /\ log' = Append(log, Cmd(cur, h, what, arg, f, TRUE))
          /\ UNCHANGED <<exc, faults>>
       \/ /\ faults < MaxFaults
          /\ faults' = faults + 1
          /\ RaiseOutsideTry(<<Cmd(cur, h, what, arg, f, FALSE)>>, CommandFailed(cur, what))

\* a remote operation at p inside a finally block, followed by more at q
InFinally(p, h, what, arg, f, q) ==
    /\ pc = p
    /\ \/ /\ pc' = q
          /\ log' = Append(log, Cmd(cur, h, what, arg, f, TRUE))
          /\ UNCHANGED <<exc, faults>>
       \/ /\ faults < MaxFaults
          /\ faults' = faults + 1
          /\ FinallyRaise(<<Cmd(cur, h, what, arg, f, FALSE)>>, CommandFailed(cur, what))

\* the last remote operation of a finally block
LastInFinally(p, h, what, arg, f) ==
    /\ pc = p
    /\ \/ /\ FinallyEnd(<<Cmd(cur, h, what, arg, f, TRUE)>>)
          /\ UNCHANGED faults
       \/ /\ faults < MaxFaults
          /\ faults' = faults + 1
          /\ FinallyRaise(<<Cmd(cur, h, what, arg, f, FALSE)>>, CommandFailed(cur, what))

----------------------------------------------------------------------------
(* ceph_initial, normalize_hostnames, download_ceph_daemon *)

\* ceph_initial: finally: log.info('Teardown complete')
ceph_initial_finally ==
    /\ pc = "fin_initial"
    /\ FinallyEnd(<<[op |-> "teardown_complete"]>>)
    /\ UNCHANGED <<cluster, ctxvars, idx, exits, cur, loopvars,
                   faults, raised>>

\* finally: pass (normalize_hostnames, ceph_mons, ceph_mgrs, ceph_osds)
finally_pass ==
    /\ pc = "fin_pass"
    /\ FinallyEnd(<<>>)
    /\ UNCHANGED <<cluster, ctxvars, idx, exits, cur, loopvars,
                   faults, raised>>

\* normalize_hostnames: ctx.cluster.run(sudo hostname $(hostname -s)), then yield
normalize_hostnames_run ==
    /\ OutsideTry("norm_hostname", "all", "hostname", <<>>, "", "yield")
    /\ UNCHANGED <<cluster, ctxvars, idx, exits, cur, loopvars, raised>>

\* download_ceph_daemon: ctx.cluster.run(curl ... && test -s && chmod +x)
download_ceph_daemon_curl ==
    /\ OutsideTry("dl_curl", "all", "curl", <<>>, "", "yield")
    /\ UNCHANGED <<cluster, ctxvars, idx, exits, cur, loopvars, raised>>

\* download_ceph_daemon, finally: ceph-daemon rm-cluster --fsid ctx.fsid --force
download_ceph_daemon_rm_cluster ==
    /\ InFinally("fin_dl_rm_cluster", "all", "rm-cluster", <<>>, ctx_fsid, "fin_dl_rm")
    /\ UNCHANGED <<cluster, ctxvars, idx, exits, cur, loopvars, raised>>

\* download_ceph_daemon, finally: rm -rf {tdir}/ceph-daemon
download_ceph_daemon_rm ==
    /\ LastInFinally("fin_dl_rm", "all", "rm ceph-daemon", <<>>, "")
    /\ UNCHANGED <<cluster, ctxvars, idx, exits, cur, loopvars, raised>>

---------------------------------------------------------------------------------------------------------------------------------------------------
(* ceph_log, ceph_crash: nothing on entry, the archive is pulled in finally *)

\* try: os.makedirs(...) except OSError: pass
\* the events of one call: it may raise, the error is dropped
Makedirs(failed) == IF failed THEN <<[op |-> "OSError", ph |-> cur]>> ELSE <<>>

\* number of failures among these outcomes
Failures(outcomes) == Cardinality({i \in 1..Len(outcomes) : outcomes[i]})

\* LogWanted without the archive-on-error clause
LogWanted_archive(success) == archive

\* if ctx.archive is not None and
\*    not (ctx.config.get('archive-on-error') and ctx.summary['success'])
LogWanted(success) == archive /\ ~(archive_on_error /\ success)

\* ceph_log, finally: the condition; ctx.summary['success'] is read now
ceph_log_finally ==
    /\ pc = "fin_log"
    /\ \E success \in BOOLEAN :
          IF LogWanted(success)
             THEN /\ pc' = "fin_log_gzip"
                  /\ log' = Append(log, [op |-> "archive_logs", success |-> success])
                  /\ UNCHANGED exc
             ELSE FinallyEnd(<<[op |-> "skip_logs", success |-> success]>>)
    /\ UNCHANGED <<cluster, ctxvars, idx, exits, cur, loopvars, faults, raised>>

\* run.wait(ctx.cluster.run(find /var/log/ceph/<fsid> ... | xargs gzip)),
\* then os.makedirs(path)
ceph_log_gzip ==
    /\ pc = "fin_log_gzip"
    /\ \E gz, mk \in BOOLEAN :
          /\ gz => ~mk
          /\ faults + Failures(<<gz, mk>>) <= MaxFaults
          /\ faults' = faults + Failures(<<gz, mk>>)
          /\ IF gz
                THEN FinallyRaise(<<Cmd(cur, "all", "gzip logs", <<>>, fsid, FALSE)>>,
                                  CommandFailed(cur, "gzip logs"))
                ELSE /\ pc' = "fin_log_pull"
                     /\ log' = log \o <<Cmd(cur, "all", "gzip logs", <<>>, fsid, TRUE)>>
                                   \o Makedirs(mk)
                     /\ UNCHANGED exc
    /\ UNCHANGED <<cluster, ctxvars, idx, exits, cur, loopvars, raised>>

\* for remote in ctx.cluster.remotes.keys(): os.makedirs(sub);
\*     teuthology.pull_directory(remote, '/var/log/ceph/' + fsid, ...)
ceph_log_pull ==
    /\ pc = "fin_log_pull"
    /\ hi <= Len(order)
    /\ \E mk, pull \in BOOLEAN :
          /\ faults + Failures(<<mk, pull>>) <= MaxFaults
          /\ faults' = faults + Failures(<<mk, pull>>)
          /\ LET events == Makedirs(mk) \o
                           <<Cmd(cur, order[hi], "pull log", <<>>, fsid, ~pull)>>
             IN  IF pull
                    THEN FinallyRaise(events, CommandFailed(cur, "pull log"))
                    ELSE IF hi < Len(order)
                            THEN /\ pc' = pc
                                 /\ log' = log \o events
                                 /\ UNCHANGED exc
                            ELSE FinallyEnd(events)
          /\ hi' = IF pull THEN hi ELSE hi + 1
    /\ UNCHANGED <<cluster, ctxvars, idx, exits, cur, wi, num_mons, report,
                   devs_by_remote, raised>>

\* ceph_crash, finally: if ctx.archive is not None: os.makedirs(path)
ceph_crash_finally ==
    /\ pc = "fin_crash"
    /\ IF archive
          THEN \E mk \in BOOLEAN :
                  /\ faults + Failures(<<mk>>) <= MaxFaults
                  /\ faults' = faults + Failures(<<mk>>)
                  /\ pc' = "fin_crash_pull"
                  /\ log' = log \o <<[op |-> "archive_crash"]>> \o Makedirs(mk)
                  /\ UNCHANGED exc
          ELSE /\ FinallyEnd(<<[op |-> "skip_crash"]>>)
               /\ UNCHANGED faults
    /\ UNCHANGED <<cluster, ctxvars, idx, exits, cur, loopvars, raised>>

\* what pull_directory of the crash directory can do
PullResults == {"ok", "ReadError", "error"}

\* CrashPullRaises without the except ReadError clause
CrashPullRaises_uncaught(res) == res # "ok"

\* try: pull_directory(...) except ReadError: pass
\* does this result of the pull leave the finally block of ceph_crash?
CrashPullRaises(res) == res = "error"

\* for remote in ctx.cluster.remotes.keys(): os.makedirs(sub);
\*     try: teuthology.pull_directory(remote, '/var/lib/ceph/%s/crash' % fsid, ...)
\*     except ReadError: pass
ceph_crash_pull ==
    /\ pc = "fin_crash_pull"
    /\ hi <= Len(order)
    /\ \E mk \in BOOLEAN, res \in PullResults :
          /\ faults + Failures(<<mk, res # "ok">>) <= MaxFaults
          /\ faults' = faults + Failures(<<mk, res # "ok">>)
          /\ LET events == Makedirs(mk) \o
                           <<Cmd(cur, order[hi], "pull crash", <<res>>, fsid, res = "ok")>>
             IN  IF CrashPullRaises(res)
                    THEN FinallyRaise(events, [kind |-> res, ph |-> cur,
                                               cmd |-> "pull crash"])
                    ELSE IF hi < Len(order)
                            THEN /\ pc' = pc
                                 /\ log' = log \o events
                                 /\ UNCHANGED exc
                            ELSE FinallyEnd(events)
          /\ hi' = IF CrashPullRaises(res) THEN hi ELSE hi + 1
    /\ UNCHANGED <<cluster, ctxvars, idx, exits, cur, wi, num_mons, report,
                   devs_by_remote, raised>>

-----
(* ceph_bootstrap *)

\* first_mon = sorted(mons.keys())[0]
FirstMon(rem) == SortedFirst(Mons(rem))

\* LocalMgrs taking the mgr.* roles of every host
LocalMgrs_anywhere(rem) == {r \in AllRoles(rem) : StartsWith(r, MgrPrefix)}

\* others = ctx.cluster.remotes[mon_remote]
\* mgrs = sorted([r for r in others if r.startswith('mgr.')])
LocalMgrs(rem) == Range(Filter(rem[RemoteOf(rem, FirstMon(rem))], MgrPrefix))

\* first_mgr = mgrs[0]
FirstMgr(rem) == SortedFirst(LocalMgrs(rem))

\* (mon_remote,) = ctx.cluster.only(first_mon).remotes.keys()
mon_remote == RemoteOf(remotes, first_mon)

\* role[4:]
RoleId(role) == SubSeq(role, 5, Len(role))

\* lines 212-225: choose the first mon and the first mgr, before the try
ceph_bootstrap_select ==
    /\ pc = "boot_select"
    /\ first_mon' = FirstMon(remotes)
    /\ IF LocalMgrs(remotes) = {}
          THEN /\ RaiseOutsideTry(<<>>, [kind |-> "RuntimeError", ph |-> cur])
               /\ UNCHANGED first_mgr
          ELSE /\ first_mgr' = FirstMgr(remotes)
               /\ pc' = "boot_seed"
               /\ UNCHANGED <<exc, log>>
    /\ UNCHANGED <<cluster, idx, exits, cur, loopvars, faults, raised>>

\* seed_config = build_initial_config(ctx, config), which reads config['conf'];
\* teuthology.write_file(mon_remote, seed.ceph.conf, seed_config)
ceph_bootstrap_seed ==
    /\ pc = "boot_seed"
    /\ IF "conf" \in DOMAIN config
          THEN LET seed_config == build_initial_config(ctx_fsid, config["conf"])
               IN  InTry("boot_seed", mon_remote, "write seed.ceph.conf",
                         <<seed_config>>, seed_config["global"]["fsid"],
                         "boot_bootstrap")
          ELSE /\ RaiseInTry(<<>>, [kind |-> "KeyError", ph |-> cur])
               /\ UNCHANGED faults
    /\ UNCHANGED <<cluster, ctxvars, idx, exits, cur, loopvars, raised>>

\* ceph_bootstrap_bootstrap with --fsid read from the seed config
ceph_bootstrap_bootstrap_seed_fsid ==
    /\ InTry("boot_bootstrap", mon_remote, "bootstrap",
             <<RoleId(first_mon), RoleId(first_mgr)>>,
             build_initial_config(ctx_fsid, config["conf"])["global"]["fsid"],
             "boot_get_conf")
    /\ UNCHANGED <<cluster, ctxvars, idx, exits, cur, loopvars, raised>>

\* mon_remote.run(ceph-daemon bootstrap --fsid fsid --mon-id .. --mgr-id ..)
ceph_bootstrap_bootstrap ==
    /\ InTry("boot_bootstrap", mon_remote, "bootstrap",
             <<RoleId(first_mon), RoleId(first_mgr)>>, fsid, "boot_get_conf")
    /\ UNCHANGED <<cluster, ctxvars, idx, exits, cur, loopvars, raised>>

\* ctx.config_file = teuthology.get_file(mon_remote, ceph.conf)
ceph_bootstrap_get_conf ==
    /\ InTry("boot_get_conf", mon_remote, "get ceph.conf", <<>>, "",
             "boot_get_keyring")
    /\ UNCHANGED <<cluster, ctxvars, idx, exits, cur, loopvars, raised>>

\* ctx.admin_keyring = teuthology.get_file(mon_remote, ceph.keyring)
ceph_bootstrap_get_keyring ==
    /\ InTry("boot_get_keyring", mon_remote, "get ceph.keyring", <<>>, "",
             "boot_get_mon_keyring")
    /\ UNCHANGED <<cluster, ctxvars, idx, exits, cur, loopvars, raised>>

\* ctx.mon_keyring = teuthology.get_file(mon_remote, /var/lib/ceph/<fsid>/<mon>/keyring)
ceph_bootstrap_get_mon_keyring ==
    /\ InTry("boot_get_mon_keyring", mon_remote, "get mon keyring", first_mon, fsid,
             "boot_get_pub")
    /\ UNCHANGED <<cluster, ctxvars, idx, exits, cur, loopvars, raised>>

\* NextOther without 'if remote == mon_remote: continue'
NextOther_any(i) == IF i <= Len(order) THEN i ELSE 0

\* the next host at or after position i that is not mon_remote (0: none)
NextOther(i) ==
    LET js == {j \in i..Len(order) : order[j] # mon_remote}
    IN  IF js = {} THEN 0 ELSE CHOOSE j \in js : \A k \in js : j <= k

\* control after the body of the 'add other hosts' loop for position i - 1
AddHostsPc(i) == IF NextOther(i) = 0 THEN "yield" ELSE "boot_write_conf"

\* ssh_pub_key = teuthology.get_file(mon_remote, ceph.pub).strip()
ceph_bootstrap_get_pub ==
    /\ InTry("boot_get_pub", mon_remote, "get ceph.pub", <<>>, "", "boot_install_pub")
    /\ UNCHANGED <<cluster, ctxvars, idx, exits, cur, loopvars, raised>>

\* ctx.cluster.run(install -d /root/.ssh && echo key | tee -a authorized_keys ..)
ceph_bootstrap_install_pub ==
    /\ InTry("boot_install_pub", "all", "install ceph.pub", <<>>, "", AddHostsPc(1))
    /\ hi' = IF pc' \in {"yield", "boot_write_conf"} THEN NextOther(1) ELSE hi
    /\ UNCHANGED <<cluster, ctxvars, idx, exits, cur, wi, num_mons, report,
                   devs_by_remote, raised>>

\* teuthology.write_file(remote, ceph.conf, ctx.config_file)
ceph_bootstrap_write_conf ==
    /\ InTry("boot_write_conf", order[hi], "write ceph.conf", <<>>, "",
             "boot_write_keyring")
    /\ UNCHANGED <<cluster, ctxvars, idx, exits, cur, loopvars, raised>>

\* teuthology.write_file(remote, ceph.keyring, ctx.admin_keyring)
ceph_bootstrap_write_keyring ==
    /\ InTry("boot_write_keyring", order[hi], "write ceph.keyring", <<>>, "",
             "boot_host_add")
    /\ UNCHANGED <<cluster, ctxvars, idx, exits, cur, loopvars, raised>>

\* shell(ctx, remote, ceph orchestrator host add <shortname>), next host or yield
ceph_bootstrap_host_add ==
    /\ InTry("boot_host_add", order[hi], "host add", <<order[hi]>>, ctx_fsid,
             AddHostsPc(hi + 1))
    /\ hi' = IF pc' \in {"yield", "boot_write_conf"} THEN NextOther(hi + 1) ELSE hi
    /\ UNCHANGED <<cluster, ctxvars, idx, exits, cur, wi, num_mons, report,
                   devs_by_remote, raised>>

\* finally: ctx.cluster.run(rm -f seed.ceph.conf ceph.pub ceph.conf ceph.keyring)
ceph_bootstrap_rm ==
    /\ InFinally("fin_boot_rm", "all", "rm ceph files", <<>>, "", "fin_boot_stop")
    /\ UNCHANGED <<cluster, ctxvars, idx, exits, cur, loopvars, raised>>

\* finally: ctx.cluster.run(sudo systemctl stop ceph.target)
ceph_bootstrap_stop ==
    /\ LastInFinally("fin_boot_stop", "all", "stop ceph.target", <<>>, "")
    /\ UNCHANGED <<cluster, ctxvars, idx, exits, cur, loopvars, raised>>

----------------------------------------------------------------------------
(* ceph_mons *)

\* for remote, roles in ctx.cluster.remotes.items():
\*     for mon in [r for r in roles if r.startswith('mon.')]:
\*         if mon == ctx.first_mon: continue
\* MonWork without the 'continue' for ctx.first_mon
MonWork_all ==
    Concat([i \in 1..Len(order) |->
              LET ms == Filter(remotes[order[i]], MonPrefix)
              IN  [j \in 1..Len(ms) |-> [host |-> order[i], mon |-> ms[j]]]])

\* the (remote, mon) pairs the loop body runs for, in order
MonWork ==
    Concat([i \in 1..Len(order) |->
              LET ms == SelectSeq(Filter(remotes[order[i]], MonPrefix),
                                  LAMBDA m : m # first_mon)
              IN  [j \in 1..Len(ms) |-> [host |-> order[i], mon |-> ms[j]]]])

\* the 'mon dump' queries of the poll that is running (since the last update)
RECURSIVE Queries(_)
Queries(l) ==
    IF l = <<>> THEN 0
    ELSE LET e == l[Len(l)]
             front == SubSeq(l, 1, Len(l) - 1)
         IN  IF e.op = "cmd" /\ e.cmd = "mon update" THEN 0
             ELSE IF e.op = "cmd" /\ e.cmd = "mon dump" THEN 1 + Queries(front)
             ELSE Queries(front)

\* what a monitor map can report while n monitors are expected
Reports(n) == 0..(n + 1)

\* Converged with a count above the expected one taken for a match
Converged_at_least(n, expected) == n >= expected

\* Converged with a count below the expected one taken for a match
Converged_at_most(n, expected) == n <= expected

\* if len(j['mons']) == num_mons: break
Converged(n, expected) == n = expected

\* the loops are exhausted: yield
ceph_mons_yield ==
    /\ pc = "mons_next"
    /\ wi > Len(MonWork)
    /\ pc' = "yield"
    /\ UNCHANGED <<cluster, ctxvars, idx, exits, exc, cur, loopvars,
                   log, faults, raised>>

\* num_mons += 1; shell(ceph orchestrator mon update <num_mons> <host>:<addr>)
ceph_mons_update ==
    /\ pc = "mons_next"
    /\ wi <= Len(MonWork)
    /\ InTry("mons_next", MonWork[wi].host, "mon update",
             <<num_mons + 1, MonWork[wi].mon>>, ctx_fsid, "mons_dump")
    /\ num_mons' = num_mons + 1
    /\ UNCHANGED <<cluster, ctxvars, idx, exits, cur, hi, wi, report,
                   devs_by_remote, raised>>

\* r = shell(ceph mon dump -f json); j = json.loads(r.stdout.getvalue())
ceph_mons_dump ==
    /\ pc = "mons_dump"
    /\ Queries(log) < MaxPolls
    /\ InTry("mons_dump", MonWork[wi].host, "mon dump", <<>>, ctx_fsid, "mons_check")
    /\ IF pc' = "mons_check"
          THEN report' \in Reports(num_mons)
          ELSE UNCHANGED report
    /\ UNCHANGED <<cluster, ctxvars, idx, exits, cur, hi, wi, num_mons,
                   devs_by_remote, raised>>

\* if len(j['mons']) == num_mons: break, else time.sleep(1)
ceph_mons_check ==
    /\ pc = "mons_check"
    /\ IF Converged(report, num_mons)
          THEN /\ pc' = "mons_next"
               /\ wi' = wi + 1
               /\ log' = Append(log, [op |-> "converged", n |-> num_mons,
                                       saw |-> report])
          ELSE /\ pc' = "mons_dump"
               /\ wi' = wi
               /\ log' = Append(log, [op |-> "sleep"])
    /\ report' = -1
    /\ UNCHANGED <<cluster, ctxvars, idx, exits, exc, cur, hi, num_mons,
                   devs_by_remote, faults, raised>>

----------------------------------------------------------------------------
(* ceph_mgrs *)

\* MgrNodes without the 'continue' for ctx.first_mgr
MgrNodes_all ==
    Concat([i \in 1..Len(order) |->
              LET ms == Filter(remotes[order[i]], MgrPrefix)
              IN  [j \in 1..Len(ms) |-> order[i]]])

\* nodes: remote.shortname for every mgr.* role other than ctx.first_mgr
MgrNodes ==
    Concat([i \in 1..Len(order) |->
              LET ms == SelectSeq(Filter(remotes[order[i]], MgrPrefix),
                                  LAMBDA m : m # first_mgr)
              IN  [j \in 1..Len(ms) |-> order[i]]])

\* the remote the 'mgr update' runs on: line 383 binds remote to the first
\* mon's host, the for loop of line 387 binds the same name to every host in
\* turn, and line 394 reads it after the loop
MgrUpdateRemote == order[Len(order)]

\* shell(ctx, remote, ceph orchestrator mgr update <len(nodes) + 1> <nodes>)
ceph_mgrs_update ==
    /\ InTry("mgrs_update", MgrUpdateRemote, "mgr update",
             <<Len(MgrNodes) + 1, MgrNodes>>, ctx_fsid, "yield")
    /\ UNCHANGED <<cluster, ctxvars, idx, exits, cur, loopvars, raised>>

----------------------------------------------------------------------------
(* ceph_osds *)

\* [r for r in roles if r.startswith('osd.')]
OsdRoles(h) == Filter(remotes[h], OsdPrefix)

\* the zap loop is over: on to 'Deploying OSDs...'
ceph_osds_zapped ==
    /\ pc = "osds_zap"
    /\ hi > Len(order)
    /\ pc' = "osds_deploy"
    /\ hi' = 1
    /\ wi' = 1
    /\ UNCHANGED <<cluster, ctxvars, idx, exits, exc, cur, num_mons, report,
                   devs_by_remote, log, faults, raised>>

\* every device of this remote is zapped: devs_by_remote[remote] = devs
ceph_osds_zap_next ==
    /\ pc = "osds_zap"
    /\ hi <= Len(order)
    /\ wi > Len(scratch[order[hi]])
    /\ devs_by_remote' = (order[hi] :> scratch[order[hi]]) @@ devs_by_remote
    /\ hi' = hi + 1
    /\ wi' = 1
    /\ UNCHANGED <<cluster, ctxvars, idx, exits, exc, cur, pc, num_mons, report,
                   log, faults, raised>>

\* for dev in devs: shell(ctx, remote, ceph-volume lvm zap dev)
ceph_osds_zap ==
    /\ pc = "osds_zap"
    /\ hi <= Len(order)
    /\ wi <= Len(scratch[order[hi]])
    /\ InTry("osds_zap", order[hi], "zap", <<scratch[order[hi]][wi]>>, ctx_fsid,
             "osds_zap")
    /\ wi' = wi + 1
    /\ UNCHANGED <<cluster, ctxvars, idx, exits, cur, hi, num_mons, report,
                   devs_by_remote, raised>>

\* the deploy loops are exhausted: yield
ceph_osds_yield ==
    /\ pc = "osds_deploy"
    /\ hi > Len(order)
    /\ pc' = "yield"
    /\ UNCHANGED <<cluster, ctxvars, idx, exits, exc, cur, loopvars,
                   log, faults, raised>>

\* every osd.* role of this remote is deployed: next remote
ceph_osds_deploy_next ==
    /\ pc = "osds_deploy"
    /\ hi <= Len(order)
    /\ wi > Len(OsdRoles(order[hi]))
    /\ hi' = hi + 1
    /\ wi' = 1
    /\ UNCHANGED <<cluster, ctxvars, idx, exits, exc, cur, pc, num_mons, report,
                   devs_by_remote, log, faults, raised>>

\* DevsLeft asking for a device to spare
DevsLeft_spare(devs) == Len(devs) > 1

\* assert devs
DevsLeft(devs) == devs # <<>>

\* ceph_osds_deploy with dev = devs[-1] for dev = devs.pop()
ceph_osds_deploy_no_pop ==
    /\ pc = "osds_deploy"
    /\ hi <= Len(order)
    /\ wi <= Len(OsdRoles(order[hi]))
    /\ LET h == order[hi]
           devs == devs_by_remote[h]
       IN  IF ~DevsLeft(devs)
              THEN /\ RaiseInTry(<<>>, [kind |-> "AssertionError", ph |-> cur])
                   /\ UNCHANGED <<devs_by_remote, wi, faults>>
              ELSE /\ UNCHANGED devs_by_remote
                   /\ InTry("osds_deploy", h, "osd create",
                            <<OsdRoles(h)[wi], devs[Len(devs)]>>, ctx_fsid,
                            "osds_deploy")
                   /\ wi' = wi + 1
    /\ UNCHANGED <<cluster, ctxvars, idx, exits, cur, hi, num_mons, report,
                   raised>>

\* assert devs; dev = devs.pop();
\* shell(ctx, remote, ceph orchestrator osd create <shortname>:<dev>)
ceph_osds_deploy ==
    /\ pc = "osds_deploy"
    /\ hi <= Len(order)
    /\ wi <= Len(OsdRoles(order[hi]))
    /\ LET h == order[hi]
           devs == devs_by_remote[h]
       IN  IF ~DevsLeft(devs)
              THEN /\ RaiseInTry(<<>>, [kind |-> "AssertionError", ph |-> cur])
                   /\ UNCHANGED <<devs_by_remote, wi, faults>>
              ELSE /\ devs_by_remote' =
                         [devs_by_remote EXCEPT ![h] = SubSeq(devs, 1, Len(devs) - 1)]
                   /\ InTry("osds_deploy", h, "osd create",
                            <<OsdRoles(h)[wi], devs[Len(devs)]>>, ctx_fsid,
                            "osds_deploy")
                   /\ wi' = wi + 1
    /\ UNCHANGED <<cluster, ctxvars, idx, exits, cur, hi, num_mons, report,
                   raised>>

----------------------------------------------------------------------------
(* stop *)

Osd2 == OsdPrefix \o <<50>>
OsdAll == OsdPrefix \o <<42>>

\* the daemons registered in ctx.daemons, in the order of the registry
DaemonOrder == <<MonA, Osd0, Osd1, Osd2>>

\* what a list of daemons may name: a role, or every role of a type
StopNames == Range(DaemonOrder) \cup {OsdAll}

\* lists of at most n different names
StopLists(n) ==
    {l \in UNION {[1..k -> StopNames] : k \in 0..n} :
        \A i, j \in 1..Len(l) : l[i] = l[j] => i = j}

\* stop: [osd.0, osd.2]  /  stop: {daemons: [osd.0, osd.2]}  /  stop: {}  /  stop:
StopConfigs ==
    {[form |-> "none"], [form |-> "dict", has |-> FALSE]}
       \cup {[form |-> f, has |-> TRUE, daemons |-> l] :
               f \in {"list", "dict"}, l \in StopLists(MaxStopLen)}

\* Normalize without the isinstance(config, list) branch
Normalize_no_list(cfg) ==
    IF cfg.form = "dict" THEN cfg ELSE [form |-> "dict", has |-> FALSE]

\* if config is None: config = {}
\* elif isinstance(config, list): config = {'daemons': config}
Normalize(cfg) ==
    IF cfg.form = "none" THEN [form |-> "dict", has |-> FALSE]
    ELSE IF cfg.form = "list"
            THEN [form |-> "dict", has |-> TRUE, daemons |-> cfg.daemons]
            ELSE cfg

\* config.get('daemons', None)
GetDaemons(cfg) == IF cfg.has THEN <<cfg.daemons>> ELSE <<>>

\* a list without the repeats of its elements
RECURSIVE Dedup(_)
Dedup(l) ==
    IF l = <<>> THEN <<>>
    ELSE LET front == Dedup(SubSeq(l, 1, Len(l) - 1))
         IN  IF l[Len(l)] \in Range(front) THEN front
             ELSE Append(front, l[Len(l)])

\* the registered daemons a name stands for
Expand(name) ==
    IF name[Len(name)] = 42
       THEN SelectSeq(DaemonOrder,
                      LAMBDA d : StartsWith(d, SubSeq(name, 1, Len(name) - 1)))
       ELSE <<name>>

\* ctx.daemons.resolve_role_list(roles, CEPH_ROLE_TYPES, True): every
\* registered daemon for None, else the daemons the names stand for
resolve_role_list(roles) ==
    IF roles = <<>> THEN DaemonOrder
    ELSE Dedup(Concat([i \in 1..Len(roles[1]) |-> Expand(roles[1][i])]))

\* daemons = ctx.daemons.resolve_role_list(config.get('daemons', None), ...)
StopDaemons == resolve_role_list(GetDaemons(Normalize(stop_config)))

\* stop() is called: config normalised, the daemons resolved
stop_call ==
    /\ pc = "stop_call"
    /\ pc' = "stop_loop"
    /\ hi' = 1
    /\ log' = Append(log, [op |-> "resolved", daemons |-> StopDaemons])
    /\ UNCHANGED <<job, stop_config, running, ctxvars, idx, exits, exc, cur,
                   wi, num_mons, report, devs_by_remote, faults, raised>>

\* for role in daemons: ctx.daemons.get_daemon(type_, id_, cluster).stop()
stop_daemon ==
    /\ pc = "stop_loop"
    /\ hi <= Len(StopDaemons)
    /\ running' = running \ {StopDaemons[hi]}
    /\ log' = Append(log, [op |-> "stop", role |-> StopDaemons[hi]])
    /\ hi' = hi + 1
    /\ UNCHANGED <<job, stop_config, ctxvars, idx, exits, exc, cur, pc,
                   wi, num_mons, report, devs_by_remote, faults, raised>>

\* the loop is over: yield
stop_yield ==
    /\ pc = "stop_loop"
    /\ hi > Len(StopDaemons)
    /\ pc' = "stop_body"
    /\ log' = Append(log, [op |-> "yield"])
    /\ UNCHANGED <<job, stop_config, running, ctxvars, idx, exits, exc, cur,
                   loopvars, faults, raised>>

\* the body of the caller's with statement ends, by returning or by raising
stop_body ==
    /\ pc = "stop_body"
    /\ pc' = "stop_exit"
    /\ \E e \in {NoExc, [kind |-> "Exception", ph |-> "body"]} : exc' = e
    /\ UNCHANGED <<job, stop_config, running, ctxvars, idx, exits, cur,
                   loopvars, log, faults, raised>>

\* the generator is resumed after its yield, where it ends: an exception of
\* the body goes on to the caller
stop_exit ==
    /\ pc = "stop_exit"
    /\ pc' = "done"
    /\ raised' = exc
    /\ UNCHANGED <<job, stop_config, running, ctxvars, idx, exits, exc, cur,
                   loopvars, log, faults>>

----------------------------------------------------------------------------
(* The run *)

Next ==
    \/ nested_enter
    \/ nested_entered
    \/ task_body_return
    \/ task_body_raise
    \/ nested_exit
    \/ nested_finish
    \/ ceph_initial_finally
    \/ finally_pass
    \/ normalize_hostnames_run
    \/ download_ceph_daemon_curl
    \/ download_ceph_daemon_rm_cluster
    \/ download_ceph_daemon_rm
    \/ ceph_log_finally
    \/ ceph_log_gzip
    \/ ceph_log_pull
    \/ ceph_crash_finally
    \/ ceph_crash_pull
    \/ ceph_bootstrap_select
    \/ ceph_bootstrap_seed
    \/ ceph_bootstrap_bootstrap
    \/ ceph_bootstrap_get_conf
    \/ ceph_bootstrap_get_keyring
    \/ ceph_bootstrap_get_mon_keyring
    \/ ceph_bootstrap_get_pub
    \/ ceph_bootstrap_install_pub
    \/ ceph_bootstrap_write_conf
    \/ ceph_bootstrap_write_keyring
    \/ ceph_bootstrap_host_add
    \/ ceph_bootstrap_rm
    \/ ceph_bootstrap_stop
    \/ ceph_mons_yield
    \/ ceph_mons_update
    \/ ceph_mons_dump
    \/ ceph_mons_check
    \/ ceph_mgrs_update
    \/ ceph_osds_zapped
    \/ ceph_osds_zap_next
    \/ ceph_osds_zap
    \/ ceph_osds_yield
    \/ ceph_osds_deploy_next
    \/ ceph_osds_deploy

Spec == Init /\ [][Next]_vars

\* one run of the task; control is a single thread, which always goes on
InitFair ==
    /\ Called(ClusterA, 1, "fsid-1")
    /\ config = WithConf(EmptyMap)
    /\ archive = TRUE
    /\ archive_on_error = TRUE
    /\ first_mon = NoRole
    /\ first_mgr = NoRole

FairSpec == InitFair /\ [][Next]_vars /\ WF_vars(Next)

\* ceph_osds alone, called by nested after the eight managers before it
InitOsds ==
    /\ \E c \in OsdClusters : Called(c, 9, "fsid-1")
    /\ config = WithConf(EmptyMap)
    /\ archive = FALSE
    /\ archive_on_error = FALSE
    /\ first_mon = FirstMon(remotes)
    /\ first_mgr = FirstMgr(remotes)

NextOsds ==
    \/ nested_enter
    \/ ceph_osds_zapped
    \/ ceph_osds_zap_next
    \/ ceph_osds_zap
    \/ ceph_osds_yield
    \/ ceph_osds_deploy_next
    \/ ceph_osds_deploy
    \/ finally_pass

SpecOsds == InitOsds /\ [][NextOsds]_vars

\* the choice of the first mon and mgr alone, on every placement of the roles
InitSelect ==
    /\ \E c \in SelectClusters : Called(c, 6, "fsid-1")
    /\ config = WithConf(EmptyMap)
    /\ archive = FALSE
    /\ archive_on_error = FALSE
    /\ first_mon = NoRole
    /\ first_mgr = NoRole

NextSelect ==
    \/ nested_enter
    \/ ceph_bootstrap_select

SpecSelect == InitSelect /\ [][NextSelect]_vars

\* the seed config of ceph_bootstrap, for every 'conf' of the task's config
\* and for a config without 'conf'
InitConf ==
    /\ \E f \in Fsids : Called(ClusterA, 6, f)
    /\ config \in {WithConf(ov) : ov \in Overrides} \cup {NoConf}
    /\ archive = FALSE
    /\ archive_on_error = FALSE
    /\ first_mon = NoRole
    /\ first_mgr = NoRole

NextConf ==
    \/ nested_enter
    \/ ceph_bootstrap_select
    \/ ceph_bootstrap_seed

SpecConf == InitConf /\ [][NextConf]_vars

\* the configs the whole task is run with to follow the fsid
FsidConfigs ==
    {NoConf, WithConf(EmptyMap),
     WithConf([sec \in {"global"} |-> [k \in {"fsid"} |-> "fsid-2"]])}

InitFsid ==
    /\ \E f \in Fsids : Called(ClusterA, 1, f)
    /\ config \in FsidConfigs
    /\ archive = TRUE
    /\ archive_on_error = FALSE
    /\ first_mon = NoRole
    /\ first_mgr = NoRole

SpecFsid == InitFsid /\ [][Next]_vars

\* stop() alone, on every config and with any of the daemons running
InitStop ==
    /\ remotes = [h \in Hosts |-> RolesOf(ClusterA.place, h)]
    /\ scratch = [h \in Hosts |-> ScratchList(ClusterA.ndevs[h])]
    /\ order = <<"H1", "H2">>
    /\ archive = FALSE
    /\ archive_on_error = FALSE
    /\ fsid = "fsid-1"
    /\ ctx_fsid = "fsid-1"
    /\ config = WithConf(EmptyMap)
    /\ stop_config \in StopConfigs
    /\ running \in SUBSET Range(DaemonOrder)
    /\ first_mon = NoRole
    /\ first_mgr = NoRole
    /\ idx = 1
    /\ exits = <<>>
    /\ exc = NoExc
    /\ cur = "stop"
    /\ pc = "stop_call"
    /\ hi = 1
    /\ wi = 1
    /\ num_mons = 1
    /\ report = -1
    /\ devs_by_remote = <<>>
    /\ log = <<>>
    /\ faults = 0
    /\ raised = NoExc

NextStop ==
    \/ stop_call
    \/ stop_daemon
    \/ stop_yield
    \/ stop_body
    \/ stop_exit

SpecStop == InitStop /\ [][NextStop]_vars

\* ceph_mons alone, called by nested after ceph_bootstrap entered
InitMons ==
    /\ \E c \in MonClusters : Called(c, 7, "fsid-1")
    /\ config = WithConf(EmptyMap)
    /\ archive = FALSE
    /\ archive_on_error = FALSE
    /\ first_mon = FirstMon(remotes)
    /\ first_mgr = FirstMgr(remotes)

NextMons ==
    \/ nested_enter
    \/ ceph_mons_yield
    \/ ceph_mons_update
    \/ ceph_mons_dump
    \/ ceph_mons_check
    \/ finally_pass

SpecMons == InitMons /\ [][NextMons]_vars

\* ceph_bootstrap alone, called by nested after the five managers before it,
\* with the first monitor on either host
InitBoot ==
    /\ \E c \in MonClusters : Called(c, 6, "fsid-1")
    /\ config = WithConf(EmptyMap)
    /\ archive = FALSE
    /\ archive_on_error = FALSE
    /\ first_mon = NoRole
    /\ first_mgr = NoRole

NextBoot ==
    \/ nested_enter
    \/ ceph_bootstrap_select
    \/ ceph_bootstrap_seed
    \/ ceph_bootstrap_bootstrap
    \/ ceph_bootstrap_get_conf
    \/ ceph_bootstrap_get_keyring
    \/ ceph_bootstrap_get_mon_keyring
    \/ ceph_bootstrap_get_pub
    \/ ceph_bootstrap_install_pub
    \/ ceph_bootstrap_write_conf
    \/ ceph_bootstrap_write_keyring
    \/ ceph_bootstrap_host_add
    \/ ceph_bootstrap_rm
    \/ ceph_bootstrap_stop

SpecBoot == InitBoot /\ [][NextBoot]_vars

\* ceph_mgrs alone, called by nested after ceph_mons entered
InitMgrs ==
    /\ \E c \in MgrClusters : Called(c, 8, "fsid-1")
    /\ config = WithConf(EmptyMap)
    /\ archive = FALSE
    /\ archive_on_error = FALSE
    /\ first_mon = FirstMon(remotes)
    /\ first_mgr = FirstMgr(remotes)

NextMgrs ==
    \/ nested_enter
    \/ ceph_mgrs_update
    \/ finally_pass

SpecMgrs == InitMgrs /\ [][NextMgrs]_vars

----------------------------------------------------------------------------
(* Reading the log *)

Idx == 1..Len(log)

Reverse(q) == [i \in 1..Len(q) |-> q[Len(q) + 1 - i]]

\* the managers of the events of kind op, in the order of the events
Phases(op) ==
    LET sel == SelectSeq(log, LAMBDA e : e.op = op)
    IN  [i \in 1..Len(sel) |-> sel[i].ph]

IsRaise(e, wheres) == e.op = "raise" /\ e.where \in wheres

IsCmd(e, what) == e.op = "cmd" /\ e.cmd = what

\* the exception of the last raise event
LastRaised ==
    LET is == {i \in Idx : log[i].op = "raise"}
    IN  IF is = {} THEN NoExc
        ELSE log[CHOOSE i \in is : \A j \in is : j <= i].e

\* the managers whose entry code lies inside their try statement; in
\* ceph_bootstrap all of it but the choice of the first mon and mgr, which can
\* only raise the RuntimeError of line 222
RaisedInsideTry(ev) ==
    /\ ev.ph \in {"ceph_bootstrap", "ceph_mons", "ceph_mgrs", "ceph_osds"}
    /\ ev.e.kind # "RuntimeError"

----------------------------------------------------------------------------
(* C1 *)

\* C1 as stated: when the entry action of manager N+1 fails after N managers
\* entered, exactly the finally blocks of managers N..1 run, in reverse order
\* and none of manager N+1, and then the original error is raised to the caller
\* (read for the runs in which no finally block raises).
C1_Original ==
    (pc = "done" /\ \A j \in Idx : ~IsRaise(log[j], {"finally"})) =>
       \A i \in Idx : IsRaise(log[i], {"entry", "try"}) =>
          LET n == Len(Phases("entered"))
          IN  /\ log[i].ph = Managers[n + 1]
              /\ Phases("finally") = Reverse(SubSeq(Managers, 1, n))
              /\ raised = log[i].e

\* C1, amended: when the entry action of manager N+1 fails after N managers
\* entered, the finally blocks of managers N..1 run exactly once each in
\* reverse order, preceded by the finally block of manager N+1 itself when the
\* failure was raised inside its try statement; only then an error is raised
\* to the caller: the original one unless a finally block raised, else the
\* error of the last finally block that raised.
C1_TeardownAfterEntryFailure ==
    /\ raised # NoExc => pc = "done" /\ exits = <<>>
    /\ pc = "done" =>
          \A i \in Idx : IsRaise(log[i], {"entry", "try"}) =>
             LET n == Len(Phases("entered"))
                 own == IF RaisedInsideTry(log[i]) THEN <<log[i].ph>> ELSE <<>>
             IN  /\ log[i].ph = Managers[n + 1]
                 /\ Phases("finally") = own \o Reverse(SubSeq(Managers, 1, n))
                 /\ \A j \in Idx : log[j].op = "finally" => j > i
                 /\ raised # NoExc
                 /\ raised = LastRaised
                 /\ (\A j \in Idx : ~IsRaise(log[j], {"finally"})) => raised = log[i].e

\* the bootstrap command failed: the finally blocks of ceph_bootstrap and of
\* the five managers before it ran, and the original error reached the caller
C1_Witness ==
    /\ pc = "done"
    /\ \E i \in Idx :
          /\ IsRaise(log[i], {"try"})
          /\ log[i].ph = "ceph_bootstrap"
          /\ log[i].e.cmd = "bootstrap"
          /\ raised = log[i].e
    /\ Len(Phases("finally")) = 6

----------------------------------------------------------------------------
(* C2 *)

\* C2: when the finally block of an entered manager raises, the finally blocks
\* of all the entered managers still run, once each, in reverse order of entry.
C2_TeardownPastFailure ==
    (pc = "done" /\ \E i \in Idx : IsRaise(log[i], {"finally"})) =>
       LET ent == Phases("entered")
       IN  SelectSeq(Phases("finally"), LAMBDA ph : ph \in Range(ent)) = Reverse(ent)

\* rm-cluster failed in the finally block of download_ceph_daemon with all
\* nine managers entered, and the finally block of ceph_initial still ran
C2_Witness ==
    /\ pc = "done"
    /\ Len(Phases("entered")) = 9
    /\ \E i \in Idx :
          /\ IsRaise(log[i], {"finally"})
          /\ log[i].ph = "download_ceph_daemon"
          /\ log[i].e.cmd = "rm-cluster"
          /\ \E j \in Idx : j > i /\ log[j] = Finally("ceph_initial")

----------------------------------------------------------------------------
(* C3 *)

\* C3: when all nine managers entered, the body runs, and then the finally
\* block of every manager runs exactly once, in reverse order of entry, whether
\* the body returned or raised.
C3_FullTeardown ==
    (pc = "done" /\ Phases("entered") = Managers) =>
       /\ Phases("finally") = Reverse(Managers)
       /\ \E b \in Idx :
             /\ log[b].op = "body"
             /\ \A j \in Idx : log[j].op = "entered" => j < b
             /\ \A j \in Idx : log[j].op = "finally" => j > b

\* the body raised after all nine managers entered and the run is over
C3_Witness ==
    /\ pc = "done"
    /\ Phases("entered") = Managers
    /\ \E b \in Idx : log[b].op = "body" /\ ~log[b].ok
    /\ raised = [kind |-> "BodyError"]

----------------------------------------------------------------------------
(* C4 *)

\* the host at position k of the iteration order
PosOf(h) == CHOOSE k \in 1..Len(order) : order[k] = h

\* a remote operation of a finally block failed
FailedInFinally(e) ==
    /\ e.op = "cmd"
    /\ e.cmd \in {"rm-cluster", "rm ceph-daemon", "rm ceph files",
                  "stop ceph.target", "gzip logs", "pull log", "pull crash"}
    /\ ~e.ok

\* C4 as stated: inside one finally block a failed step never blocks the steps
\* after it: rm -rf ceph-daemon follows a failed rm-cluster, systemctl stop
\* follows a failed rm of the staged files, the pull from every remaining host
\* follows a failed pull, and the failure is not propagated.
C4_Original ==
    pc = "done" =>
       \A i \in Idx :
          /\ (IsCmd(log[i], "rm-cluster") /\ ~log[i].ok) =>
                \E j \in Idx : j > i /\ IsCmd(log[j], "rm ceph-daemon")
          /\ (IsCmd(log[i], "rm ceph files") /\ ~log[i].ok) =>
                \E j \in Idx : j > i /\ IsCmd(log[j], "stop ceph.target")
          /\ \A what \in {"pull log", "pull crash"} :
                (IsCmd(log[i], what) /\ ~log[i].ok) =>
                   \A k \in (PosOf(log[i].host) + 1)..Len(order) :
                      \E j \in Idx : /\ j > i
                                     /\ IsCmd(log[j], what)
                                     /\ log[j].host = order[k]
          /\ FailedInFinally(log[i]) => (i = Len(log) \/ log[i + 1].op # "raise")

\* C4, amended: inside one finally block only two failures are dropped so that
\* the steps after them still run: an OSError of os.makedirs in ceph_log and
\* ceph_crash (the pull follows) and a ReadError of a crash pull (the pull from
\* the next host follows).  Any other failed remote operation of a finally
\* block (rm-cluster, rm of ceph-daemon or of the staged files, systemctl stop,
\* gzip, a log pull, a crash pull failing otherwise) is raised out of the
\* block at once and no later step of that block runs.
C4_OnlyBestEffortDropped ==
    pc = "done" =>
       \A i \in Idx :
          /\ log[i].op = "OSError" =>
                \E j \in Idx :
                   /\ j > i
                   /\ log[j].op = "cmd"
                   /\ log[j].ph = log[i].ph
                   /\ log[j].cmd \in {"pull log", "pull crash"}
                   /\ \A m \in i..j : log[m].op # "raise"
          /\ (IsCmd(log[i], "pull crash") /\ log[i].arg = <<"ReadError">>) =>
                /\ i < Len(log)
                /\ log[i + 1].op # "raise"
                /\ \A k \in (PosOf(log[i].host) + 1)..Len(order) :
                      \E j \in Idx : /\ j > i
                                     /\ IsCmd(log[j], "pull crash")
                                     /\ log[j].host = order[k]
          /\ (FailedInFinally(log[i]) /\ log[i].arg # <<"ReadError">>) =>
                /\ i < Len(log)
                /\ log[i + 1].op = "raise"
                /\ log[i + 1].where = "finally"
                /\ log[i + 1].ph = log[i].ph
                /\ \A j \in Idx : j > i + 1 => (log[j].op \in {"cmd", "finished"}
                                                 => log[j].ph # log[i].ph)

\* the crash pull from the first host raised ReadError and the second host
\* was pulled all the same
C4_Witness ==
    /\ pc = "done"
    /\ \E i, j \in Idx :
          /\ i < j
          /\ IsCmd(log[i], "pull crash")
          /\ log[i].arg = <<"ReadError">>
          /\ log[i].host = order[1]
          /\ IsCmd(log[j], "pull crash")
          /\ log[j].host = order[2]

----------------------------------------------------------------------------
(* C5 *)

\* position of manager ph in the list handed to nested
Number(ph) == CHOOSE k \in 1..Len(Managers) : Managers[k] = ph

\* entry of N completes before entry of N+1 begins
EntryNested ==
    \A i \in Idx :
       (log[i].op = "enter" /\ Number(log[i].ph) > 1) =>
          \E j \in 1..(i - 1) : log[j] = Entered(Managers[Number(log[i].ph) - 1])

\* the finally block of N+1 has ended before the finally block of N begins
TeardownNested ==
    \A i \in Idx :
       (log[i].op = "finally" /\ Number(log[i].ph) < Len(Managers)) =>
          LET inner == Managers[Number(log[i].ph) + 1]
              began == \E j \in 1..(i - 1) : log[j] = Finally(inner)
              ended == \E j \in 1..(i - 1) :
                          \/ log[j] = Finished(inner)
                          \/ IsRaise(log[j], {"finally"}) /\ log[j].ph = inner
          IN  (\E j \in Idx : log[j] \in {Entered(inner), Finally(inner)}) =>
                 began /\ ended

\* C5 as stated: entry of N completes before entry of N+1 begins, the teardown
\* of N+1 finishes before the teardown of N begins, and the teardown of N never
\* begins unless the entry action of N has run to completion.
C5_Original ==
    /\ EntryNested
    /\ TeardownNested
    /\ \A i \in Idx :
          log[i].op = "finally" =>
             \E j \in 1..(i - 1) : log[j] = Entered(log[i].ph)

\* C5, amended: entry of N completes before entry of N+1 begins, the teardown
\* of N+1 finishes before the teardown of N begins, and the teardown of N never
\* begins before the entry action of N has ended: run to completion, or
\* failed inside the try of N, and then the finally block of N runs at once
\* and N+1 is never entered.
C5_StrictNesting ==
    /\ EntryNested
    /\ TeardownNested
    /\ \A i \in Idx :
          log[i].op = "finally" =>
             \/ \E j \in 1..(i - 1) : log[j] = Entered(log[i].ph)
             \/ /\ i > 1
                /\ IsRaise(log[i - 1], {"try"})
                /\ log[i - 1].ph = log[i].ph
                /\ RaisedInsideTry(log[i - 1])
                /\ Number(log[i].ph) < Len(Managers) =>
                      \A j \in Idx : log[j] # Enter(Managers[Number(log[i].ph) + 1])

\* a run that ended after host add failed in ceph_bootstrap: its finally block
\* ran though it never entered, and the five managers before it were torn down
C5_Witness ==
    /\ pc = "done"
    /\ \E i \in Idx :
          /\ log[i] = Finally("ceph_bootstrap")
          /\ IsRaise(log[i - 1], {"try"})
          /\ log[i - 1].e.cmd = "host add"
    /\ Phases("finally") = <<"ceph_bootstrap">> \o Reverse(SubSeq(Managers, 1, 5))

----------------------------------------------------------------------------
(* C6, C7: the devices of ceph_osds *)

\* R_h: the osd.* roles of host h;  D_h: its scratch devices
R(h) == Len(OsdRoles(h))

D(h) == Len(scratch[h])

\* the 'osd create' commands issued on host h, failed ones included
Creates(h) == {i \in Idx : IsCmd(log[i], "osd create") /\ log[i].host = h}

\* ceph_osds reached its yield / left its try with an exception
OsdsEntered == cur = "ceph_osds" /\ pc = "yield"

OsdsRaised == cur = "ceph_osds" /\ exc # NoExc

\* a zap or an osd create command of ceph_osds failed
OsdsCommandFailed ==
    \E i \in Idx : log[i].op = "cmd" /\ log[i].ph = "ceph_osds" /\ ~log[i].ok

\* what ceph_osds leaves behind when it enters: R_h creates on every host h,
\* on R_h different devices, and D_h - R_h devices unassigned
Allocated ==
    \A h \in Hosts :
       /\ R(h) <= D(h)
       /\ Cardinality(Creates(h)) = R(h)
       /\ Cardinality({log[i].arg[2] : i \in Creates(h)}) = R(h)
       /\ Len(devs_by_remote[h]) = D(h) - R(h)

\* C6 as stated: ceph_osds enters if and only if R_h <= D_h for every host h,
\* and when it enters there were exactly R_h 'osd create' commands on host h
\* and D_h - R_h devices remain unassigned there.
C6_Original ==
    /\ OsdsEntered => Allocated
    /\ OsdsRaised => \E h \in Hosts : R(h) > D(h)

\* C6, amended: unless a zap or an osd create command fails, ceph_osds enters if
\* and only if R_h <= D_h for every host h (it raises AssertionError otherwise);
\* whenever it enters there were exactly R_h 'osd create' commands on host h
\* and D_h - R_h devices remain unassigned there.
C6_Allocation ==
    /\ OsdsEntered => Allocated
    /\ OsdsRaised /\ ~OsdsCommandFailed =>
          /\ exc.kind = "AssertionError"
          /\ \E h \in Hosts : R(h) > D(h)
    /\ OsdsRaised /\ exc.kind = "AssertionError" => \E h \in Hosts : R(h) > D(h)

\* ceph_osds entered on a cluster with an osd on each host, one host with a
\* spare device
C6_Witness ==
    /\ OsdsEntered
    /\ \A h \in Hosts : R(h) = 1
    /\ \E h \in Hosts : D(h) = 2 /\ Len(devs_by_remote[h]) = 1
    /\ \E h \in Hosts : D(h) = 1 /\ devs_by_remote[h] = <<>>

\* C7 as stated: on a host h with more osd.* roles than scratch devices no
\* 'osd create' command is ever issued: ceph_osds raises first.
C7_NoCreateOnShortHost ==
    \A h \in Hosts : R(h) > D(h) => Creates(h) = {}

----------------------------------------------------------------------------
(* C8, C9: the poll of ceph_mons *)

IsDump(e) == IsCmd(e, "mon dump")

IsUpdate(e) == IsCmd(e, "mon update")

\* the 'mon update' that started the poll the event at i belongs to
PollStart(i) ==
    CHOOSE u \in 1..(i - 1) :
       /\ IsUpdate(log[u])
       /\ \A j \in (u + 1)..(i - 1) : ~IsUpdate(log[j])

\* the events of kind sel between the start of its poll and the event at i
InPoll(i, sel(_)) == {j \in (PollStart(i) + 1)..(i - 1) : sel(log[j])}

IsSleep(e) == e.op = "sleep"

\* the polls that ended with a match: M queries, M - 1 sleeps, a sleep between
\* every two consecutive queries, the matching query last
PollShape ==
    \A i \in Idx :
       /\ log[i].op = "converged" =>
             /\ log[i].saw = log[i].n
             /\ IsDump(log[i - 1])
             /\ Cardinality(InPoll(i, IsSleep)) = Cardinality(InPoll(i, IsDump)) - 1
             /\ \A j \in InPoll(i, IsDump) :
                   /\ log[j].ok
                   /\ j < i - 1 => IsSleep(log[j + 1]) /\ IsDump(log[j + 2])
             /\ i < Len(log) => ~IsDump(log[i + 1]) /\ ~IsSleep(log[i + 1])
       /\ IsSleep(log[i]) => IsDump(log[i - 1]) /\ log[i - 1].ok
       /\ IsDump(log[i]) => IsUpdate(log[i - 1]) \/ IsSleep(log[i - 1])

\* what the poll does with the count a query reported: the exact count ends
\* the poll with no sleep and no further query, any other count is followed by
\* one sleep and the next query
PollStep ==
    pc = "mons_check" =>
       IF report = num_mons
          THEN /\ pc' = "mons_next"
               /\ log' = Append(log, [op |-> "converged", n |-> num_mons,
                                      saw |-> report])
          ELSE /\ pc' = "mons_dump"
               /\ log' = Append(log, [op |-> "sleep"])

\* C8: a poll whose query M is the first to report exactly the expected count
\* issues exactly M 'mon dump' queries and M - 1 sleeps, one sleep between
\* every two consecutive queries, and no query after the matching one.
C8_PollCount == [](PollShape) /\ [][PollStep]_vars

\* a poll that saw the expected count on its third query
C8_Witness ==
    \E i \in Idx :
       /\ log[i].op = "converged"
       /\ Cardinality(InPoll(i, IsDump)) = 3
       /\ Cardinality(InPoll(i, IsSleep)) = 2

\* the polls that saw no match so far
OpenPolls ==
    {u \in Idx : /\ IsUpdate(log[u])
                 /\ log[u].ok
                 /\ \A j \in (u + 1)..Len(log) : log[j].op # "converged"}

Polling == cur = "ceph_mons" /\ pc \in {"mons_dump", "mons_check"} /\ exc = NoExc

\* C9 as stated: as long as no query reported exactly the expected count the
\* poll neither returns nor raises: control stays in the poll, ceph_mgrs and
\* ceph_osds are not entered, no finally block starts, no exception is raised.
C9_Original == \A u \in OpenPolls : Polling

\* the poll has used up the queries this model lets it make, with no match
PollCapped == pc = "mons_dump" /\ Queries(log) = MaxPolls

\* C9, amended: as long as no query reported exactly the expected count (less
\* and more do not count) the poll does not return; it goes on unless a
\* 'mon dump' command fails, which raises out of ceph_mons at once. If every
\* poll sees the exact count, ceph_mons ends.
C9_PollUntilExact ==
    /\ [](\A u \in OpenPolls :
             \/ Polling
             \/ \E j \in (u + 1)..(Len(log) - 2) :
                   /\ IsDump(log[j]) /\ ~log[j].ok
                   /\ IsRaise(log[j + 1], {"try"})
                   /\ log[j + 2] = Finally("ceph_mons")
                   /\ \A k \in (u + 1)..j :
                         IsDump(log[k]) \/ IsSleep(log[k]))
    /\ [](\A i \in Idx : log[i].op = "converged" => log[i].saw = log[i].n)
    /\ (cur = "ceph_mons") ~> (cur # "ceph_mons" \/ pc = "yield" \/ PollCapped)

\* the poll saw one monitor, then three, and goes on polling
C9_Witness ==
    /\ Polling
    /\ pc = "mons_dump"
    /\ Queries(log) = 2
    /\ OpenPolls # {}

----------------------------------------------------------------------------
(* C10: the first mon and the first mgr *)

\* ceph_bootstrap chose its first mon and mgr
Selected == cur = "ceph_bootstrap" /\ pc = "boot_seed"

MgrsOn(h) == {r \in Range(remotes[h]) : StartsWith(r, MgrPrefix)}

\* C10: the first monitor is the lexicographically smallest mon.* role of the
\* cluster, the first manager the lexicographically smallest mgr.* role on the
\* first monitor's host, whatever mgr.* roles other hosts have; mon.b, mon.a
\* and mgr.c on H1 with mgr.a on H2 give mon.a and mgr.c.
C10_Selection ==
    Selected =>
       /\ first_mon \in Mons(remotes)
       /\ \A m \in Mons(remotes) : ~StrLess(m, first_mon)
       /\ \E h \in Hosts :
             /\ first_mon \in Range(remotes[h])
             /\ first_mgr \in MgrsOn(h)
             /\ \A m \in MgrsOn(h) : ~StrLess(m, first_mgr)
       /\ remotes = [h \in Hosts |-> RolesOf(ClusterA.place, h)] =>
             first_mon = MonA /\ first_mgr = MgrC

\* mon.b, mon.a, mgr.c on H1 and mgr.a on H2: mon.a and mgr.c are chosen
C10_Witness ==
    /\ Selected
    /\ {MonB, MonA, MgrC} \subseteq Range(remotes["H1"])
    /\ MgrA \in Range(remotes["H2"])
    /\ first_mon = MonA
    /\ first_mgr = MgrC

----------------------------------------------------------------------------
(* C11: no mgr on the host of the first mon *)

NoLocalMgr == LocalMgrs(remotes) = {}

\* C11: with no mgr.* role on the first monitor's host ceph_bootstrap raises
\* RuntimeError once, before any remote command of its own (no seed config, no
\* bootstrap, no cleanup of its own either), nothing after it is entered, the
\* five managers entered before it are torn down in reverse order, and the
\* run ends with an error raised to the caller: the RuntimeError itself when
\* no teardown step raised meanwhile.
C11_MissingMgrFatal ==
    NoLocalMgr =>
       /\ \A i \in Idx :
             /\ log[i].op = "cmd" => log[i].ph # "ceph_bootstrap"
             /\ log[i].op \in {"enter", "finally"} =>
                   Number(log[i].ph) <= 6 /\ log[i] # Finally("ceph_bootstrap")
             /\ log[i] = Enter("ceph_bootstrap") =>
                   \A j \in Idx : log[j] = log[i] => j = i
             /\ IsRaise(log[i], {"entry", "try"}) /\ log[i].ph = "ceph_bootstrap" =>
                   /\ log[i] = Raise("ceph_bootstrap", "entry",
                                     [kind |-> "RuntimeError", ph |-> "ceph_bootstrap"])
                   /\ log[i - 1] = Enter("ceph_bootstrap")
                   /\ \A j \in Idx : log[j] = log[i] => j = i
       /\ pc = "done" /\ (\E i \in Idx : log[i] = Enter("ceph_bootstrap")) =>
             /\ Phases("entered") = SubSeq(Managers, 1, 5)
             /\ Phases("finally") = Reverse(SubSeq(Managers, 1, 5))
             /\ raised # NoExc
             /\ raised = LastRaised
             /\ (\A j \in Idx : ~IsRaise(log[j], {"finally"})) =>
                   raised.kind = "RuntimeError"

\* a run on the cluster without a mgr beside mon.a that ended with the
\* RuntimeError at the caller
C11_Witness ==
    /\ NoLocalMgr
    /\ pc = "done"
    /\ raised.kind = "RuntimeError"
    /\ first_mon = MonA
    /\ first_mgr = NoRole
    /\ Len(Phases("finally")) = 5

----------------------------------------------------------------------------
(* C12: build_initial_config *)

\* the seed configs written so far
Seeds == {i \in Idx : IsCmd(log[i], "write seed.ceph.conf")}

\* override wins, every override key is there with its value
OverrideWins(result, X, ov) ==
    /\ "global" \in DOMAIN result
    /\ "fsid" \in DOMAIN result["global"]
    /\ result["global"]["fsid"] =
          IF "global" \in DOMAIN ov /\ "fsid" \in DOMAIN ov["global"]
             THEN ov["global"]["fsid"]
             ELSE X
    /\ \A sec \in DOMAIN ov : \A key \in DOMAIN ov[sec] :
          /\ sec \in DOMAIN result
          /\ key \in DOMAIN result[sec]
          /\ result[sec][key] = ov[sec][key]

\* nothing but global.fsid and the override entries
NothingElse(result, ov) ==
    \A sec \in DOMAIN result :
       /\ sec = "global" \/ sec \in DOMAIN ov
       /\ \A key \in DOMAIN result[sec] :
             \/ sec = "global" /\ key = "fsid"
             \/ sec \in DOMAIN ov /\ key \in DOMAIN ov[sec]

\* C12 as stated: the result has global.fsid = X unless the overrides set
\* global.fsid, every override key is in its section with the override value,
\* every section of the overrides is in the result beside global, and the
\* result has nothing but global.fsid and the override entries.
C12_Original ==
    \A i \in Seeds :
       /\ OverrideWins(log[i].arg[1], ctx_fsid, config["conf"])
       /\ NothingElse(log[i].arg[1], config["conf"])
       /\ DOMAIN config["conf"] \subseteq DOMAIN log[i].arg[1]

\* C12, amended: as stated, but a section of the overrides is in the result
\* only if it is global or has at least one key: the sections of the result
\* are global and the override sections that are not empty.
C12_MergePrecedence ==
    \A i \in Seeds :
       /\ OverrideWins(log[i].arg[1], ctx_fsid, config["conf"])
       /\ NothingElse(log[i].arg[1], config["conf"])
       /\ DOMAIN log[i].arg[1] =
             {"global"} \cup {sec \in DOMAIN config["conf"] :
                                DOMAIN config["conf"][sec] # {}}

\* fsid-1 generated, the overrides set global.fsid = fsid-2 and mon.debug = 20
C12_Witness ==
    \E i \in Seeds :
       /\ ctx_fsid = "fsid-1"
       /\ DOMAIN config["conf"] = {"global", "mon"}
       /\ DOMAIN config["conf"]["global"] = {"fsid"}
       /\ DOMAIN config["conf"]["mon"] = {"debug"}
       /\ log[i].arg[1]["global"]["fsid"] = "fsid-2"
       /\ log[i].arg[1]["mon"] = [k \in {"debug"} |-> "20"]

----------------------------------------------------------------------------
(* C13: one fsid *)

\* the commands that name an fsid
FsidBearing == {i \in Idx : log[i].op = "cmd" /\ log[i].fsid # ""}

\* C13 as stated: the fsid never changes and every fsid-bearing action uses
\* it, the global.fsid of the seed config included.
C13_Original ==
    /\ fsid = ctx_fsid
    /\ \A i \in FsidBearing : log[i].fsid = fsid

\* what global.fsid of the seed config is: the override, if there is one
SeedFsid ==
    LET ov == config["conf"]
    IN  IF "global" \in DOMAIN ov /\ "fsid" \in DOMAIN ov["global"]
           THEN ov["global"]["fsid"]
           ELSE fsid

\* C13, amended: the fsid is generated once and never changes, and the
\* bootstrap command, every shell-wrapped command, rm-cluster and the log,
\* crash and mon keyring paths use it; the seed config handed to bootstrap has
\* it as global.fsid unless the conf overrides set global.fsid, and then it has
\* the overriding value, whatever the generated fsid is.
C13_SingleFsid ==
    /\ [](/\ fsid = ctx_fsid
          /\ \A i \in FsidBearing :
                log[i].fsid = IF i \in Seeds THEN SeedFsid ELSE fsid)
    /\ [][fsid' = fsid /\ ctx_fsid' = ctx_fsid]_vars

\* a whole run, torn down, with fsid-1: bootstrap, shell commands, rm-cluster
\* and the pulls all named fsid-1, the seed config fsid-2
C13_Witness ==
    /\ pc = "done"
    /\ fsid = "fsid-1"
    /\ \E i \in Seeds : log[i].fsid = "fsid-2"
    /\ \A c \in {"bootstrap", "host add", "mon update", "mon dump", "mgr update",
                 "zap", "osd create", "rm-cluster", "gzip logs", "pull log",
                 "pull crash", "get mon keyring"} :
          \E i \in FsidBearing : log[i].cmd = c /\ log[i].ok /\ log[i].fsid = "fsid-1"

----------------------------------------------------------------------------
(* C14: stop *)

\* stop() was given a list of names, as a list or as {daemons: list}
Named == stop_config.form \in {"list", "dict"} /\ stop_config.has

\* the registered daemons the names of a list stand for
Target(names) ==
    {d \in Range(DaemonOrder) :
        \E i \in 1..Len(names) :
           \/ names[i] = d
           \/ /\ names[i] = OsdAll
              /\ StartsWith(d, OsdPrefix)}

Stops(d) == {i \in Idx : log[i].op = "stop" /\ log[i].role = d}

Yielded == pc \in {"stop_body", "stop_exit", "done"}

\* the stops of a stop() given the names, whatever the form of its config
StopsOnly(names) ==
    /\ \A i \in Idx : log[i].op = "stop" => log[i].role \in Target(names)
    /\ \A d \in Target(names) : Cardinality(Stops(d)) <= 1
    /\ \A i \in Idx : log[i].op = "yield" =>
          /\ \A j \in Idx : log[j].op = "stop" => j < i
          /\ \A d \in Target(names) : Stops(d) # {}
    /\ Yielded => /\ \E i \in Idx : log[i].op = "yield"
                  /\ running \cap Target(names) = {}
    /\ names = <<Osd0, Osd2>> /\ Yielded =>
          {log[i].role : i \in {j \in Idx : log[j].op = "stop"}} = {Osd0, Osd2}

----------------------------------------------------------------------------
(* C15: when logs and crash dumps are archived *)

\* the commands of kind what a manager issued, on host h
CmdsOf(ph, what, h) ==
    {i \in Idx : IsCmd(log[i], what) /\ log[i].ph = ph /\ log[i].host = h}

\* a command of the finally block of the manager failed and left the block
LeftByFailure(ph) == \E i \in Idx : IsRaise(log[i], {"finally"}) /\ log[i].ph = ph

\* C15: at the teardown of ceph_log the logs are compressed and then pulled
\* from every remote if there is an archive directory and not both
\* archive-on-error is set and the run succeeded (a failing compress or pull
\* command ends the teardown there); otherwise ceph_log issues no compress and
\* no pull command. ceph_crash pulls from every remote whenever there is an
\* archive directory, whatever archive-on-error and the outcome of the run are.
C15_LogCapture ==
    /\ \A i \in Idx :
          /\ log[i].op \in {"archive_logs", "skip_logs"} =>
                /\ (log[i].op = "archive_logs") =
                      (archive /\ ~(archive_on_error /\ log[i].success))
                /\ log[i - 1] = Finally("ceph_log")
          /\ log[i].op = "archive_logs" /\ i < Len(log) =>
                IsCmd(log[i + 1], "gzip logs")
          /\ log[i].op = "cmd" /\ log[i].ph = "ceph_log" =>
                /\ \E j \in 1..(i - 1) : log[j].op = "archive_logs"
                /\ \A j \in Idx : log[j].op # "skip_logs"
          /\ log[i].op \in {"archive_crash", "skip_crash"} =>
                /\ (log[i].op = "archive_crash") = archive
                /\ log[i - 1] = Finally("ceph_crash")
          /\ IsCmd(log[i], "pull crash") => archive
          /\ log[i] = Finished("ceph_log") /\ log[i - 1].op # "skip_logs" =>
                /\ \E j \in CmdsOf("ceph_log", "gzip logs", "all") : log[j].ok
                /\ \A h \in Hosts :
                      /\ Cardinality(CmdsOf("ceph_log", "pull log", h)) = 1
                      /\ \A j \in CmdsOf("ceph_log", "pull log", h) : log[j].ok
          /\ log[i] = Finished("ceph_crash") /\ archive =>
                \A h \in Hosts : Cardinality(CmdsOf("ceph_crash", "pull crash", h)) = 1
    /\ \A ph \in {"ceph_log", "ceph_crash"} :
          (pc = "done" /\ \E i \in Idx : log[i] = Finally(ph)) =>
             \/ \E i \in Idx : log[i] = Finished(ph)
             \/ LeftByFailure(ph)

\* a run with an archive directory and archive-on-error that succeeded: the
\* crash dumps of both hosts were pulled, ceph_log issued no command
C15_Witness ==
    /\ pc = "done"
    /\ archive /\ archive_on_error
    /\ raised = NoExc
    /\ \E i \in Idx : log[i] = [op |-> "skip_logs", success |-> TRUE]
    /\ \A h \in Hosts : CmdsOf("ceph_crash", "pull crash", h) # {}
    /\ \A i \in Idx : log[i].op = "cmd" => log[i].ph # "ceph_log"

----------------------------------------------------------------------------
(* C16: one monitor at a time *)

\* the 'mon update' commands so far, in order
Updates == SelectSeq(log, LAMBDA e : IsUpdate(e))

UpdateAt == {i \in Idx : IsUpdate(log[i])}

MonsEntered == cur = "ceph_mons" /\ pc = "yield"

\* C16: the first monitor is never re-added; the k-th additional monitor is
\* requested with target count k + 1; the next 'mon update' is not issued
\* before a 'mon dump' reported exactly the count expected for the current
\* one; when ceph_mons completes there were (number of mon.* roles - 1)
\* updates, one for each other monitor, and the last expected count is the
\* number of mon.* roles.
C16_OneAtATime ==
    /\ \A k \in 1..Len(Updates) :
          /\ Updates[k].arg[1] = k + 1
          /\ Updates[k].arg[2] \in Mons(remotes) \ {first_mon}
          /\ \A m \in 1..Len(Updates) : Updates[m].arg[2] = Updates[k].arg[2] => m = k
    /\ \A u, v \in UpdateAt :
          u < v =>
             /\ log[u].ok
             /\ \E j \in (u + 1)..(v - 1) :
                   /\ log[j].op = "converged"
                   /\ log[j].saw = log[u].arg[1]
                   /\ IsDump(log[j - 1]) /\ log[j - 1].ok
    /\ MonsEntered =>
          /\ Len(Updates) = Cardinality(Mons(remotes)) - 1
          /\ num_mons = Cardinality(Mons(remotes))
          /\ Len(Updates) > 0 =>
                Updates[Len(Updates)].arg[1] = Cardinality(Mons(remotes))
          /\ \A u \in UpdateAt :
                \E j \in (u + 1)..Len(log) :
                   log[j].op = "converged" /\ log[j].saw = log[u].arg[1]

\* three monitors: ceph_mons completed after two updates, with counts 2 and 3
C16_Witness ==
    /\ MonsEntered
    /\ Cardinality(Mons(remotes)) = 3
    /\ Len(Updates) = 2
    /\ Updates[1].arg[1] = 2
    /\ Updates[2].arg[1] = 3
    /\ first_mon = MonA

----------------------------------------------------------------------------
(* C17: the order of the steps of ceph_bootstrap *)

\* the commands of kind what that ceph_bootstrap issued
B(what) == {i \in Idx : IsCmd(log[i], what) /\ log[i].ph = "ceph_bootstrap"}

\* every command of kind what came after a command of kind first that succeeded
After(first, what) ==
    \A i \in B(what) : \E j \in B(first) : j < i /\ log[j].ok

\* what is fetched from the first monitor's host
Fetched == {"get ceph.conf", "get ceph.keyring", "get mon keyring", "get ceph.pub"}

BootEntered == cur = "ceph_bootstrap" /\ pc = "yield"

\* C17: the seed config is written before the bootstrap command runs; config,
\* admin keyring, mon keyring and public key are fetched only after bootstrap
\* succeeded; the public key is installed on all hosts before any host is
\* registered; every host but the first monitor's gets the config and the
\* keyring before its 'host add' and is registered exactly once; the first
\* monitor's host is never registered; ceph_bootstrap yields only after all of
\* these succeeded.
C17_StepOrder ==
    /\ After("write seed.ceph.conf", "bootstrap")
    /\ \A f \in Fetched : After("bootstrap", f)
    /\ After("install ceph.pub", "host add")
    /\ \A i \in B("install ceph.pub") : log[i].host = "all"
    /\ \A i \in B("host add") :
          /\ log[i].host # mon_remote
          /\ log[i].arg = <<log[i].host>>
          /\ \A j \in B("host add") : log[j].host = log[i].host => j = i
          /\ \E j \in B("write ceph.conf"), k \in B("write ceph.keyring") :
                /\ j < k /\ k < i
                /\ log[j].ok /\ log[k].ok
                /\ log[j].host = log[i].host /\ log[k].host = log[i].host
    /\ BootEntered =>
          /\ \A c \in {"write seed.ceph.conf", "bootstrap", "install ceph.pub"}
                         \cup Fetched :
                \E i \in B(c) : log[i].ok
          /\ \A h \in Hosts \ {mon_remote} :
                \E i \in B("host add") : log[i].host = h /\ log[i].ok
          /\ \A i \in Idx : log[i].op = "cmd" => log[i].ok

\* the first monitor is on H2: ceph_bootstrap yielded with H1 registered
C17_Witness ==
    /\ BootEntered
    /\ mon_remote = "H2"
    /\ \E i \in B("host add") : log[i].host = "H1"
    /\ Cardinality(B("host add")) = 1

----------------------------------------------------------------------------
(* C18, C19: the 'mgr update' of ceph_mgrs *)

MgrUpdates == {i \in Idx : IsCmd(log[i], "mgr update")}

\* the mgr.* roles of the cluster / of host h
AllMgrs == {r \in AllRoles(remotes) : StartsWith(r, MgrPrefix)}

\* how often host h is in the list nodes
Times(nodes, h) == Cardinality({j \in 1..Len(nodes) : nodes[j] = h})

\* ceph_mgrs is past its command: it yielded or the command failed
MgrsDone == cur = "ceph_mgrs" /\ pc \in {"yield", "fin_pass", "unwind"}

\* C18: ceph_mgrs issues exactly one 'mgr update', whose count is the number
\* of mgr.* roles of the cluster and whose host list has one entry for each
\* mgr.* role other than the first manager; with no other manager the count
\* is 1 and the list is empty.
C18_MgrUpdate ==
    /\ Cardinality(MgrUpdates) <= 1
    /\ MgrsDone => Cardinality(MgrUpdates) = 1
    /\ \A i \in MgrUpdates :
          /\ log[i].arg[1] = Cardinality(AllMgrs)
          /\ Len(log[i].arg[2]) = Cardinality(AllMgrs \ {first_mgr})
          /\ \A h \in Hosts :
                Times(log[i].arg[2], h) = Cardinality(MgrsOn(h) \ {first_mgr})
          /\ AllMgrs = {first_mgr} => log[i].arg = <<1, <<>>>>

\* mgr.c beside the first monitor on H1 and mgr.a on H2: 'mgr update 2 H2'
C18_Witness ==
    /\ cur = "ceph_mgrs" /\ pc = "yield"
    /\ first_mgr = MgrC
    /\ \E i \in MgrUpdates : log[i].arg = <<2, <<"H2">>>> /\ log[i].ok

\* C19 as stated: the 'mgr update' is run on the host of the first monitor,
\* whatever the number and the order of the hosts.
C19_OnFirstMonHost ==
    \A i \in MgrUpdates : log[i].host = RemoteOf(remotes, first_mon)

----------------------------------------------------------------------------
(* C20: devices are zapped first and used once *)

Zaps == {i \in Idx : IsCmd(log[i], "zap")}

AllCreates == {i \in Idx : IsCmd(log[i], "osd create")}

\* C20: every scratch device of every host is zapped before the first 'osd
\* create' on any host; an 'osd create' on host h names a device of host h's
\* own list; no device is given to two 'osd create' commands; no osd.* role
\* gets more than one device, and each has exactly one when ceph_osds enters.
C20_ZapThenCreateOnce ==
    /\ \A i \in AllCreates :
          /\ \A j \in Zaps : j < i
          /\ \A h \in Hosts : \A dev \in Range(scratch[h]) :
                \E j \in Zaps :
                   log[j].host = h /\ log[j].arg = <<dev>> /\ log[j].ok
          /\ log[i].arg[2] \in Range(scratch[log[i].host])
          /\ log[i].arg[1] \in Range(OsdRoles(log[i].host))
          /\ \A j \in AllCreates :
                \/ i = j
                \/ /\ log[i].arg[1] # log[j].arg[1]
                   /\ log[i].host = log[j].host => log[i].arg[2] # log[j].arg[2]
    /\ OsdsEntered =>
          \A h \in Hosts : \A r \in Range(OsdRoles(h)) :
             \E i \in AllCreates :
                log[i].host = h /\ log[i].arg[1] = r /\ log[i].ok

\* both osds on H1, which has two devices: ceph_osds entered, two creates
\* on two devices
C20_Witness ==
    /\ OsdsEntered
    /\ Len(OsdRoles("H1")) = 2
    /\ D("H1") = 2
    /\ {log[i].arg[2] : i \in Creates("H1")} = {1, 2}

====
